---- MODULE Spec2Model ----
(***************************************************************************)
(* Model of app.py, the Gradio demo of InfiniteYou-FLUX: the process-wide  *)
(* pipeline singleton and its recorded configuration (prepare_pipeline),   *)
(* the request handler (generate_image) and the "gpu" execution lane the   *)
(* Generate button is registered on.                                       *)
(***************************************************************************)
EXTENDS Integers, Sequences, FiniteSets

\* ------------------------------------------------------------------ bounds

\* Total number of Generate clicks explored.
MaxRequests == 2

\* Browser sessions, each with its own Generate button and output widget.
Clients == {"c1", "c2"}

\* ------------------------------------------------------- program constants

STAGE_1 == "sim_stage1"
STAGE_2 == "aes_stage2"
DEFAULT_VERSION == STAGE_2
ModelVersions == {STAGE_1, STAGE_2}

ENABLE_ANTI_BLUR_DEFAULT == FALSE
ENABLE_REALISM_DEFAULT == FALSE

\* The blend weight 1.0 written in both entries of the loras list.
LoraWeight == 1

\* demo.queue() is called without default_concurrency_limit and the click is
\* registered without concurrency_limit: events sharing concurrency_id "gpu"
\* run one at a time.
ConcurrencyLimit == 1

\* The two adapter names, in the order delete_adapters receives them.
AdapterNames == <<"realism", "anti_blur">>

\* ------------------------------------------------------------ 64-bit words
\* TLC's integers are 32-bit, so a Python int of up to 64 bits is a tuple of
\* four 16-bit limbs, most significant first.

Limb == 2 ^ 16

Zero == <<0, 0, 0, 0>>

\* x & 0xFFFFFFFF: the low 32 bits of x.
Mask32(x) == <<0, 0, x[3], x[4]>>

InRange32(x) == /\ x[1] = 0 /\ x[2] = 0
                /\ x[3] \in 0 .. Limb - 1
                /\ x[4] \in 0 .. Limb - 1

\* Long division of a word by 10: the remainder after limb i is carried into
\* limb i + 1.
RECURSIVE DivRem10(_, _, _)
DivRem10(x, i, carry) ==
    IF i > Len(x) THEN [q |-> <<>>, r |-> carry]
    ELSE LET cur  == carry * Limb + x[i]
             rest == DivRem10(x, i + 1, cur % 10)
         IN  [q |-> <<cur \div 10>> \o rest.q, r |-> rest.r]

\* str(x) for a non-negative int: its decimal digits, most significant first.
RECURSIVE Digits(_)
Digits(x) ==
    LET d == DivRem10(x, 1, 0)
    IN  IF d.q = Zero THEN <<d.r>> ELSE Digits(d.q) \o <<d.r>>

\* Seeds the "seed (0 for random)" field is given: 0 and the largest 32-bit
\* seed.
Seeds == {Zero, <<0, 0, Limb - 1, Limb - 1>>}

\* Values torch.seed() may return: any 64-bit number.  The first has its low
\* 32 bits clear, the second has every bit set.
TorchSeeds == { <<1, 0, 0, 0>>,
                <<Limb - 1, Limb - 1, Limb - 1, Limb - 1>> }

\* ------------------------------------------------- the external pipeline
\* InfUFluxPipeline lives in pipelines/pipeline_infu_flux.py; app.py only
\* calls it.  The value of the global name "pipeline" is a record
\* [kind, id, model_version, adapters]: kind tells an object from None and
\* from the unbound name, id is the object's identity and adapters the set
\* of <<name, weight>> pairs currently loaded into pipeline.pipe.

\* The module-level value "pipeline = None".
None == [kind |-> "None", id |-> 0, model_version |-> "", adapters |-> {}]

\* The global name after "del pipeline" and before it is assigned again:
\* reading it raises NameError.
Unbound == [kind |-> "Unbound", id |-> 0, model_version |-> "", adapters |-> {}]

\* The truth value of "pipeline" in the guard: None is false, an object true.
IsObject(p) == p.kind = "Object"

\* InfUFluxPipeline(..., model_version=mv): a fresh object with no optional
\* adapter loaded.
Construct(id, mv) ==
    [kind |-> "Object", id |-> id, model_version |-> mv, adapters |-> {}]

\* The identity of an object constructed in place of old.  Identity only
\* tells apart the object a call found from the object it leaves, and the
\* old object is deleted before the new one exists, so two identities do.
FreshId(old) == 1 - old.id

Min(a, b) == IF a < b THEN a ELSE b

\* pipe.delete_adapters(names) that processed the first k names.
DeleteAdapters(p, names, k) ==
    LET gone == {names[i] : i \in 1 .. Min(k, Len(names))}
    IN  [p EXCEPT !.adapters = {a \in @ : a[1] \notin gone}]

\* pipeline.load_loras(loras) that processed the first k entries; an entry
\* is <<path, name, weight>>.
LoadLoras(p, loras, k) ==
    LET new == {<<loras[i][2], loras[i][3]>> : i \in 1 .. Min(k, Len(loras))}
    IN  [p EXCEPT !.adapters = {a \in @ : a[1] \notin {n[1] : n \in new}} \cup new]

\* What the external calls of one prepare_pipeline call do: all succeed
\* ("none"), or the named call raises after processing k list entries.
Faults == {[at |-> "none", k |-> 0], [at |-> "ctor", k |-> 0]}
          \cup {[at |-> "delete", k |-> j] : j \in 0 .. Len(AdapterNames) - 1}
          \cup {[at |-> "load", k |-> j] : j \in 0 .. Len(AdapterNames)}

NoFault == [at |-> "none", k |-> 0]

\* ------------------------------------------------------ prepare_pipeline

Config(mv, er, ab) ==
    [model_version |-> mv, enable_realism |-> er, enable_anti_blur |-> ab]

\* The guard with the anti-blur toggle compared against the realism entry.
EarlyReturnWrongKey(p, cfg, mv, er, ab) ==
    /\ IsObject(p)
    /\ cfg.enable_realism = er
    /\ cfg.enable_realism = ab
    /\ mv = cfg.model_version

\* Line 52-57: the guard of the early return.
EarlyReturn(p, cfg, mv, er, ab) ==
    /\ IsObject(p)
    /\ cfg.enable_realism = er
    /\ cfg.enable_anti_blur = ab
    /\ mv = cfg.model_version

\* Line 60-62: the configuration recorded before any work is done.
NewConfig(mv, er, ab) == Config(mv, er, ab)

\* Line 64 without its second disjunct: only the first call constructs.
NeedsRebuildFirstOnly(p, mv) == p = None

\* Line 64 taken on every call that gets past the early return.
NeedsRebuildAlways(p, mv) == TRUE

\* Line 64.
NeedsRebuild(p, mv) == p = None \/ p.model_version # mv

\* Line 81-85: the loras list handed to load_loras.
Loras(er, ab) ==
    (IF er THEN << <<"flux_realism_lora.safetensors", "realism", LoraWeight>> >>
           ELSE <<>>)
    \o
    (IF ab THEN << <<"flux_anti_blur_lora.safetensors", "anti_blur", LoraWeight>> >>
           ELSE <<>>)

\* The outcome of one call: the globals after it, the external calls it made
\* (in order) and how it ended.
Outcome(p, cfg, ops, result) ==
    [pipeline |-> p, config |-> cfg, ops |-> ops, result |-> result]

prepare_pipeline(p, cfg, mv, er, ab, fault) ==
    IF p = Unbound
    THEN Outcome(p, cfg, <<>>, "NameError")
    ELSE IF EarlyReturn(p, cfg, mv, er, ab)
    THEN Outcome(p, cfg, <<>>, "returned")
    ELSE
      LET cfg1    == NewConfig(mv, er, ab)
          rebuild == NeedsRebuild(p, mv)
          ops1    == IF rebuild THEN <<"ctor">> ELSE <<>>
      IN
      IF rebuild /\ fault.at = "ctor"
      THEN Outcome(Unbound, cfg1, ops1, "raised")
      ELSE
        LET p1   == IF rebuild THEN Construct(FreshId(p), mv) ELSE p
            ops2 == ops1 \o <<"delete_adapters">>
        IN
        IF fault.at = "delete"
        THEN Outcome(DeleteAdapters(p1, AdapterNames, fault.k), cfg1, ops2, "raised")
        ELSE
          LET p2    == DeleteAdapters(p1, AdapterNames, Len(AdapterNames))
              loras == Loras(er, ab)
              ops3  == ops2 \o <<"load_loras">>
          IN
          IF fault.at = "load"
          THEN Outcome(LoadLoras(p2, loras, fault.k), cfg1, ops3, "raised")
          ELSE Outcome(LoadLoras(p2, loras, Len(loras)), cfg1, ops3, "returned")

\* ------------------------------------------------------- generate_image

\* Line 109-110: seed 0 is replaced by torch.seed() & 0xFFFFFFFF.
ResolveSeed(seed, draw) == IF seed = Zero THEN Mask32(draw) ELSE seed

\* torch.seed() is called only for seed 0.
Draws(seed) == IF seed = Zero THEN TorchSeeds ELSE {Zero}

\* Line 131: f"Generated image, seed = {seed}".
Label(seed) == <<"Generated image, seed = ">> \o Digits(seed)

\* A try block opened before line 107.
CaughtAnywhere(site) == TRUE

\* Line 112-126: the try block encloses the pipeline call only; line 107,
\* the call of prepare_pipeline, is outside it.
Caught(site) == site = "pipeline_call"

\* An except clause that sends the request back to run again.
RetryOnException(c) == "Generating"

\* Line 126-129: what the except clause leaves of the request: it returns,
\* so the request is over ("Idle"); nothing sends it back to run again.
OnException(c) == "Idle"

\* Line 128: gr.Error(...) builds the exception object and drops it; only a
\* raised gr.Error reaches the browser.  The number of notifications the
\* statement shows.
ErrorShown == 0

\* The output component as first rendered (line 194): no image.
InitWidget == [value |-> "empty", label |-> <<"Generated Image">>]

\* gr.update(): no property changes.  gr.update(value=, label=): both do.
Apply(widget, update) ==
    IF update.kind = "noop" THEN widget
    ELSE [value |-> update.value, label |-> update.label]

\* A lane without a limit.
LaneAlwaysFree(run) == TRUE

\* Line 205-225, 262: the lane takes another event only while fewer than
\* ConcurrencyLimit events with concurrency_id "gpu" are running.
LaneFree(run) == Cardinality(run) < ConcurrencyLimit

\* ------------------------------------------------------------------ state

VARIABLES
    proc,                   \* position of the module's top-level code
    pipeline,               \* the global name "pipeline"
    loaded_pipeline_config, \* the global dict
    queue,                  \* events waiting on the "gpu" lane, oldest first
    running,                \* events the lane is executing
    session,                \* per client: its request and output component
    clicks,                 \* Generate clicks so far
    call,                   \* the latest prepare_pipeline call
    prevCall,               \* the arguments of the call before it
    rebuild_failed,         \* a constructor call raised after startup
    done                    \* the request that ended last

vars == <<proc, pipeline, loaded_pipeline_config, queue, running,
          session, clicks, call, prevCall, rebuild_failed, done>>

NoArgs == Config("", FALSE, FALSE)

NoCall == [made |-> FALSE, args |-> NoArgs, constructible |-> FALSE,
           pre_pipeline |-> None, pre_config |-> NoArgs,
           ops |-> <<>>, result |-> "none"]

\* A client with no request: only its output component carries over from
\* one request to the next.
Idle(widget) ==
    [status |-> "Idle", pc |-> "none", req |-> NoArgs, seed_in |-> Zero,
     seed |-> Zero, widget |-> widget, notes |-> 0, inferred |-> FALSE,
     retried |-> FALSE]

NoneDone ==
    [client |-> "", seed_in |-> Zero, seed |-> Zero, pre_widget |-> InitWidget,
     notes |-> 0, prepare |-> "none", inferred |-> FALSE, retried |-> FALSE,
     result |-> "none"]

\* The record of client c's request as it ends with the given result and
\* notifications shown: how its prepare_pipeline call ended, whether the
\* pipeline call was made, and the output component before the request.
Ended(c, result, notes, prepare, inferred) ==
    [client |-> c, seed_in |-> session[c].seed_in, seed |-> session[c].seed,
     pre_widget |-> session[c].widget, notes |-> notes, prepare |-> prepare,
     inferred |-> inferred, retried |-> session[c].retried, result |-> result]

\* Line 42-47: the module-level initial values; nothing has run yet.
Init ==
    /\ proc = "boot"
    /\ pipeline = None
    /\ loaded_pipeline_config = Config("aes_stage2", FALSE, FALSE)
    /\ queue = <<>>
    /\ running = {}
    /\ session = [c \in Clients |-> Idle(InitWidget)]
    /\ clicks = 0
    /\ call = NoCall
    /\ prevCall = NoCall.args
    /\ rebuild_failed = FALSE
    /\ done = NoneDone

\* One prepare_pipeline(mv, er, ab) call on the globals, with the record of
\* it kept in call / prevCall.  The call's configuration is constructible
\* when none of its external calls would raise.
DoPrepare(mv, er, ab, fault, out) ==
    /\ out = prepare_pipeline(pipeline, loaded_pipeline_config,
                              mv, er, ab, fault)
    /\ pipeline' = out.pipeline
    /\ loaded_pipeline_config' = out.config
    /\ call' = [made |-> TRUE, args |-> Config(mv, er, ab),
                constructible |-> (fault = NoFault),
                pre_pipeline |-> pipeline,
                pre_config |-> loaded_pipeline_config,
                ops |-> out.ops, result |-> out.result]
    /\ prevCall' = call.args
    /\ rebuild_failed' =
          (rebuild_failed \/ (proc = "serving" /\ out.result = "raised"
                              /\ out.pipeline = Unbound))

\* Line 260-263: the startup call with the defaults; when it raises the
\* process ends before demo.launch, otherwise the server starts.
Startup ==
    /\ proc = "boot"
    /\ \E fault \in Faults :
         \E out \in {prepare_pipeline(pipeline, loaded_pipeline_config,
                                      DEFAULT_VERSION, ENABLE_REALISM_DEFAULT,
                                      ENABLE_ANTI_BLUR_DEFAULT, fault)} :
           /\ DoPrepare(DEFAULT_VERSION, ENABLE_REALISM_DEFAULT,
                        ENABLE_ANTI_BLUR_DEFAULT, fault, out)
           /\ proc' = IF out.result = "returned" THEN "serving" ELSE "dead"
    /\ UNCHANGED <<queue, running, session, clicks, done>>

\* Line 205-225: a click on Generate puts one event, carrying the current
\* field values, on the "gpu" lane.
Click(c) ==
    /\ proc = "serving"
    /\ session[c].status = "Idle"
    /\ clicks < MaxRequests
    /\ \E mv \in ModelVersions, er \in BOOLEAN, ab \in BOOLEAN, seed \in Seeds :
         session' = [session EXCEPT ![c].status = "Queued",
                                    ![c].req = Config(mv, er, ab),
                                    ![c].seed_in = seed]
    /\ queue' = Append(queue, c)
    /\ clicks' = clicks + 1
    /\ UNCHANGED <<proc, pipeline, loaded_pipeline_config, running,
                   call, prevCall, rebuild_failed, done>>

\* The lane hands its oldest event to generate_image.
Start(c) ==
    /\ queue # <<>>
    /\ Head(queue) = c
    /\ LaneFree(running)
    /\ queue' = Tail(queue)
    /\ running' = running \cup {c}
    /\ session' = [session EXCEPT ![c].status = "Generating",
                                  ![c].pc = "prepare"]
    /\ UNCHANGED <<proc, pipeline, loaded_pipeline_config, clicks,
                   call, prevCall, rebuild_failed, done>>

\* The event of client c is over: the lane is released and the client's
\* output component is what the returned update made of it.
Finish(c, result, notes, prepare, inferred, widget) ==
    /\ done' = Ended(c, result, notes, prepare, inferred)
    /\ session' = [session EXCEPT ![c] = Idle(widget)]
    /\ running' = running \ {c}

\* Line 105-110: prepare_pipeline, then the seed.  An exception of
\* prepare_pipeline is outside the try block: it leaves generate_image, and
\* the framework ends the event and reports the error to the client.
\* model_version and the two toggles are not read after line 107, so req is
\* dropped here.
Prepare(c) ==
    /\ session[c].status = "Generating"
    /\ session[c].pc = "prepare"
    /\ LET r == session[c].req
           w == session[c].widget
           n == session[c].notes
       IN
       \E fault \in Faults, draw \in Draws(session[c].seed_in) :
         \E out \in {prepare_pipeline(pipeline, loaded_pipeline_config,
                                      r.model_version, r.enable_realism,
                                      r.enable_anti_blur, fault)} :
           /\ DoPrepare(r.model_version, r.enable_realism, r.enable_anti_blur,
                        fault, out)
           /\ IF out.result = "returned"
              THEN /\ session' = [session EXCEPT
                         ![c].pc = "infer", ![c].req = NoArgs,
                         ![c].seed = ResolveSeed(session[c].seed_in, draw)]
                   /\ UNCHANGED <<running, done>>
              ELSE IF Caught("prepare")
              THEN Finish(c, "noop", n + ErrorShown, out.result,
                          session[c].inferred,
                          Apply(w, [kind |-> "noop", value |-> "", label |-> <<>>]))
              ELSE Finish(c, "raised", n + 1, out.result, session[c].inferred, w)
    /\ UNCHANGED <<proc, queue, clicks>>

\* Line 112-131: the pipeline call.  It returns an image, or raises (reading
\* an unbound "pipeline" raises too); the except clause prints, builds a
\* gr.Error and returns gr.update().
Infer(c) ==
    /\ session[c].status = "Generating"
    /\ session[c].pc = "infer"
    /\ LET w == session[c].widget
           n == session[c].notes
       IN
       \E ok \in BOOLEAN :
         IF ok /\ IsObject(pipeline)
         THEN Finish(c, "image", n, "returned", TRUE,
                     Apply(w, [kind |-> "set", value |-> "image",
                               label |-> Label(session[c].seed)]))
         ELSE IF Caught("pipeline_call")
         THEN IF OnException(c) = "Idle"
              THEN Finish(c, "noop", n + ErrorShown, "returned", TRUE,
                          Apply(w, [kind |-> "noop", value |-> "", label |-> <<>>]))
              ELSE /\ session' = [session EXCEPT
                        ![c].pc = "prepare", ![c].inferred = TRUE,
                        ![c].notes = Min(n + ErrorShown, 1),
                        ![c].retried = TRUE]
                   /\ UNCHANGED <<running, done>>
         ELSE Finish(c, "raised", n + 1, "returned", TRUE, w)
    /\ UNCHANGED <<proc, pipeline, loaded_pipeline_config, queue,
                   clicks, call, prevCall, rebuild_failed>>

Next ==
    \/ Startup
    \/ \E c \in Clients : Click(c)
    \/ \E c \in Clients : Start(c)
    \/ \E c \in Clients : Prepare(c)
    \/ \E c \in Clients : Infer(c)

Spec == Init /\ [][Next]_vars

\* The lane's worker takes queued events and a running handler runs on: the
\* pipeline call is assumed to return or raise.
FairSpec ==
    /\ Spec
    /\ \A c \in Clients : /\ WF_vars(Start(c))
                          /\ WF_vars(Prepare(c))
                          /\ WF_vars(Infer(c))

\* ----------------------------------------------------------------- claims

\* The adapters a configuration asks for.
Wanted(er, ab) ==
    (IF er THEN {<<"realism", LoraWeight>>} ELSE {})
    \cup (IF ab THEN {<<"anti_blur", LoraWeight>>} ELSE {})

\* Reading a number back from its decimal digits: x * 10 + digit on limbs,
\* the carry moving from the least significant limb up.
RECURSIVE MulAdd10(_, _, _)
MulAdd10(x, i, carry) ==
    IF i = 0 THEN <<>>
    ELSE LET cur == x[i] * 10 + carry
         IN  MulAdd10(x, i - 1, cur \div Limb) \o <<cur % Limb>>

\* int(s) for a string of decimal digits.
RECURSIVE ParseDigits(_)
ParseDigits(s) ==
    IF s = <<>> THEN Zero
    ELSE MulAdd10(ParseDigits(SubSeq(s, 1, Len(s) - 1)), 4, s[Len(s)])

\* The seed a label shows: the number after "seed = ".
LabelSeed(label) == ParseDigits(SubSeq(label, 2, Len(label)))

\* The pipeline p is an object of args' model version holding exactly the
\* optional adapters args' toggles ask for, each at weight 1.0.
Matches(p, args) ==
    /\ IsObject(p)
    /\ p.model_version = args.model_version
    /\ p.adapters = Wanted(args.enable_realism, args.enable_anti_blur)

\* The output component of the client whose request ended last.
DoneWidget ==
    IF done.client \in Clients THEN session[done.client].widget ELSE InitWidget

\* C1: whenever a prepare_pipeline call returns normally, whatever calls came
\* before it (failed ones included), the pipeline is bound, has the requested
\* model version and holds exactly the requested optional adapters at weight
\* 1.0; the early return is included.
C1_ReturnedMatches ==
    (call.made /\ call.result = "returned") => Matches(pipeline, call.args)

\* C2: a prepare_pipeline call with the arguments of the call just before it
\* makes no constructor, delete_adapters or load_loras call and leaves
\* pipeline and loaded_pipeline_config as they were.
C2_Idempotent ==
    (call.made /\ prevCall = call.args) =>
        /\ call.ops = <<>>
        /\ pipeline = call.pre_pipeline
        /\ loaded_pipeline_config = call.pre_config

\* A repeated call, with a LoRA switched on, has returned.
C2_Witness ==
    /\ call.made /\ prevCall = call.args /\ call.result = "returned"
    /\ call.args.enable_realism
    /\ Matches(pipeline, call.args)

\* The latest call found an object of the version it asks for, with other
\* toggles recorded than the ones it asks for.
ToggleOnlyCall ==
    /\ call.made
    /\ IsObject(call.pre_pipeline)
    /\ call.args.model_version = call.pre_pipeline.model_version
    /\ <<call.args.enable_realism, call.args.enable_anti_blur>>
         # <<call.pre_config.enable_realism, call.pre_config.enable_anti_blur>>

\* C3: a call that changes only the LoRA toggles of a loaded pipeline does not
\* invoke the constructor and leaves the same pipeline object bound; it only
\* calls delete_adapters and then load_loras on it.
C3_ToggleKeepsObject ==
    ToggleOnlyCall =>
        /\ IsObject(pipeline)
        /\ pipeline.id = call.pre_pipeline.id
        /\ pipeline.model_version = call.pre_pipeline.model_version
        /\ call.ops \in {<<"delete_adapters">>, <<"delete_adapters", "load_loras">>}
        /\ (call.result = "returned" =>
              call.ops = <<"delete_adapters", "load_loras">>)

\* A toggle-only call switched realism on and returned.
C3_Witness ==
    /\ ToggleOnlyCall
    /\ call.result = "returned"
    /\ call.args.enable_realism /\ ~call.pre_config.enable_realism
    /\ pipeline.adapters = {<<"realism", LoraWeight>>}

\* The latest call found an object of another version than it asks for.
VersionSwitchCall ==
    /\ call.made
    /\ IsObject(call.pre_pipeline)
    /\ call.args.model_version # call.pre_pipeline.model_version

\* C4: a call for another model version than the loaded one invokes the
\* constructor first and gives up the old object; when it returns, a new
\* object of the requested version is bound and holds the adapters of the
\* toggles passed in that call, changed or not.
C4_VersionSwitchRebuilds ==
    VersionSwitchCall =>
        /\ call.ops # <<>> /\ call.ops[1] = "ctor"
        /\ pipeline # call.pre_pipeline
        /\ (IsObject(pipeline) => pipeline.id # call.pre_pipeline.id)
        /\ (call.result = "returned" =>
              /\ Matches(pipeline, call.args)
              /\ call.ops = <<"ctor", "delete_adapters", "load_loras">>)

\* A version switch with the toggles left as they were (both on) returned.
C4_Witness ==
    /\ VersionSwitchCall
    /\ call.result = "returned"
    /\ call.args.enable_realism /\ call.args.enable_anti_blur
    /\ call.pre_config.enable_realism /\ call.pre_config.enable_anti_blur
    /\ Cardinality(pipeline.adapters) = 2

\* C5: for a request with seed 0 the seed passed to the pipeline is within
\* [0, 2^32 - 1], the label of a successful result shows exactly that seed,
\* and that seed is never 0.
C5_RandomSeed ==
    (done.inferred /\ done.seed_in = Zero) =>
        /\ InRange32(done.seed)
        /\ done.seed # Zero
        /\ (done.result = "image" =>
              /\ DoneWidget.label[1] = "Generated image, seed = "
              /\ LabelSeed(DoneWidget.label) = done.seed
              /\ SubSeq(DoneWidget.label, 2, Len(DoneWidget.label)) # <<0>>)

\* C6: when the pipeline call raises, the output component keeps the value
\* and label it had before the request, and exactly one error notification
\* is shown to the user for the request.
C6_FailureLeavesOutput ==
    (done.inferred /\ done.result # "image") =>
        /\ done.result = "noop"
        /\ DoneWidget = done.pre_widget
        /\ done.notes = 1

\* C7: at most one generate_image invocation runs at a time, so no
\* prepare_pipeline runs while another request's pipeline call is in flight.
C7_OneAtATime ==
    /\ Cardinality(running) <= 1
    /\ \A c \in Clients : (session[c].status = "Generating") <=> (c \in running)
    /\ \A c, d \in Clients :
         (c # d /\ session[c].pc = "infer") => session[d].pc = "none"

\* One request is at its pipeline call while another waits on the lane.
C7_Witness ==
    \E c, d \in Clients :
        /\ c # d
        /\ session[c].pc = "infer"
        /\ session[d].status = "Queued"
        /\ queue = <<d>>

\* C8: a request becomes Generating only from the lane's queue, where only a
\* Generate click puts it; every Generating request returns to Idle and
\* releases the lane, whether it succeeded or failed; no request runs again
\* after a failure.
C8_Lifecycle ==
    /\ [][\A c \in Clients :
            /\ (session'[c].status = "Generating" /\ session[c].status # "Generating")
                 => (session[c].status = "Queued" /\ Head(queue) = c)
            /\ (session'[c].status = "Queued" /\ session[c].status # "Queued")
                 => (session[c].status = "Idle" /\ clicks' = clicks + 1)
            /\ (session[c].status = "Generating" /\ session'[c].status # "Generating")
                 => (session'[c].status = "Idle" /\ c \notin running')]_vars
    /\ [](\A c \in Clients : ~session[c].retried)
    /\ \A c \in Clients :
         (session[c].status = "Generating")
            ~> (session[c].status = "Idle" /\ c \notin running)

\* A request failed at its pipeline call, its client is Idle again and the
\* lane has gone on to the next request.
C8_Witness ==
    /\ done.inferred /\ done.result = "noop"
    /\ session[done.client].status = "Idle"
    /\ \E d \in Clients : d # done.client /\ running = {d}

\* C9: when prepare_pipeline raises inside a request, the exception leaves
\* generate_image: the pipeline call is not made for the request and no
\* update, image or no-op, is returned, so the output component is untouched.
C9_ConfigErrorPropagates ==
    (done.prepare \in {"raised", "NameError"}) =>
        /\ done.result = "raised"
        /\ ~done.inferred
        /\ DoneWidget = done.pre_widget

\* A request ended because load_loras or the constructor raised, after an
\* earlier request of the same client had produced an image.
C9_Witness ==
    /\ done.prepare = "raised"
    /\ done.result = "raised"
    /\ done.pre_widget.value = "image"

\* C10: after a constructor call has raised on a model-version switch, a
\* later prepare_pipeline call whose configuration is constructible returns
\* normally with a pipeline matching it.
C10_RecoversAfterFailedRebuild ==
    (rebuild_failed /\ call.made /\ call.constructible) =>
        /\ call.result = "returned"
        /\ Matches(pipeline, call.args)

====
